---- MODULE Spec2Model ----
(***************************************************************************)
(* Model of RequestQueue (src/middleware/request-queue.ts): a semaphore    *)
(* with a bounded waiter list, run by a single-threaded event loop.        *)
(* A step of the model is one uninterrupted run of JavaScript: a call of   *)
(* process() up to its first await, the continuation of a released waiter, *)
(* the settlement of a work promise, or the continuation after             *)
(* `await fn()` (the finally block).                                       *)
(*                                                                         *)
(* Spec and FairSpec run the queue alone, under arbitrary work functions.  *)
(* HttpSpec runs the server: POST /analyze through the queue, the LLM      *)
(* calls and the repository, and GET /search.  SearchSpec runs the         *)
(* repository's topic search over arbitrary stored rows.  StartSpec runs   *)
(* main() from the environment to the construction of the queue,           *)
(* TimedSpec runs POST /analyze under a fair event loop, and TwoSpec runs  *)
(* two instances of the queue side by side.                                *)
(***************************************************************************)
EXTENDS Integers, Sequences, FiniteSets, TLC

\* ---------------------------------------------------------------- bounds
MaxSubs == 5          \* submissions made to the queue in one behaviour
MaxConc == 2          \* largest maxConcurrent the constructor is given
MaxQ    == 2          \* largest maxQueueSize the constructor is given
LiveSubs == 3         \* submissions made in a behaviour of FairSpec
HttpSubs == 2         \* requests admitted or rejected in a behaviour of HttpSpec
MaxRows  == 2         \* rows stored in a behaviour of SearchSpec
TwoSubs  == 2         \* calls of process() on each queue in TwoSpec
TimedSubs == 2        \* requests admitted in a behaviour of TimedSpec

MaxTextLength  == 50000   \* validateAnalysisRequest, CHECK on analyses.text
ShortTextWords == 20      \* generateSummary's short text threshold
MaxTopicLength == 100     \* validateSearchQuery

Subs == 1..MaxSubs

\* what a work function can do: return a promise, or throw when called
WorkKinds == {"async", "throws"}

\* how the promise returned by a work function settles: with the analysis,
\* or with an error of the LLM call or of repository.save (the queue sees
\* only a rejection carrying that error)
Fulfilled == {"value"}
Failures  == {"timeout", "persistError"}
Outcomes  == Fulfilled \cup Failures

CapacityError == "ServiceUnavailableError"
NoResult      == "none"

VARIABLES
  env,             \* the environment the process was started in
  peer,            \* a second RequestQueue, when there is one: its fields,
                   \* and which of the two the other variables belong to
  maxConcurrent,   \* constructor parameter
  maxQueueSize,    \* constructor parameter
  processing,      \* this.processing
  queue,           \* this.queue: the resolve callbacks, by submission
  resumeJobs,      \* released waiters whose continuation is still pending
  pc,              \* where each call of process() stands
  submitted,       \* the latest call of process(): the submission, and the
                   \* processing and queue.length it found on entry
  waited,          \* the calls that pushed a callback on this.queue
  invoked,         \* number of calls of fn() per submission
  incs,            \* number of processing++ per submission
  decs,            \* number of processing-- per submission
  workResult,      \* the settlement of fn()'s promise that the continuation
                   \* after `await fn()` is still to receive
  delivered,       \* the latest settlement of a promise of process(): the
                   \* submission, how its fn() ended, what its caller got,
                   \* the callback its finally block called
  settles,         \* number of settlements of the promise of process()
  text,            \* body.text of the request behind each submission
  llm,             \* the two LLM sub-operations of each call of analyze()
  saves,           \* number of calls of repository.save per submission
  db,              \* the rows of table analyses, in insertion order
  response         \* the HTTP response a handler has just written

\* what the queue alone never touches
outside == <<text, llm, saves, db, response>>

vars == <<env, peer, maxConcurrent, maxQueueSize, processing, queue, resumeJobs, pc,
          submitted, waited, invoked, incs, decs, workResult, delivered,
          settles, text, llm, saves, db, response>>

\* what no call of process() and none of its continuations changes
config == <<env, peer, maxConcurrent, maxQueueSize>>

\* ------------------------------------------------------------ helpers

\* the capacity check written with > on the waiter list
AtCapacityOffByOne ==
  processing >= maxConcurrent /\ Len(queue) > maxQueueSize

\* a capacity check that reads maxQueueSize = 0 as "no limit"
AtCapacityZeroUnlimited ==
  /\ processing >= maxConcurrent
  /\ maxQueueSize > 0
  /\ Len(queue) >= maxQueueSize

\* the condition of the first `if` of process()
AtCapacity ==
  processing >= maxConcurrent /\ Len(queue) >= maxQueueSize

\* a wait test that keeps the last slot free
MustWaitOffByOne ==
  processing + 1 >= maxConcurrent

\* the condition of the second `if` of process()
MustWait ==
  processing >= maxConcurrent

\* this.queue.pop() in place of shift(): the newest callback is taken
Popped(q) ==
  IF q = <<>> THEN [next |-> <<>>, rest |-> q]
  ELSE [next |-> <<q[Len(q)]>>, rest |-> SubSeq(q, 1, Len(q) - 1)]

\* shift() without the call `next()`: the callback is dropped
ShiftNoCall(q) ==
  IF q = <<>> THEN [next |-> <<>>, rest |-> q]
  ELSE [next |-> <<>>, rest |-> Tail(q)]

\* a release that takes the two oldest callbacks and calls both
ShiftTwo(q) ==
  IF Len(q) < 2 THEN [next |-> q, rest |-> <<>>]
  ELSE [next |-> SubSeq(q, 1, 2), rest |-> SubSeq(q, 3, Len(q))]

\* a release made only while another waiter stays behind: the last waiter
\* is never called
ShiftUnlessLast(q) ==
  IF Len(q) < 2 THEN [next |-> <<>>, rest |-> q]
  ELSE [next |-> <<Head(q)>>, rest |-> Tail(q)]

\* this.queue.shift(): the callback taken (a sequence of at most one, empty
\* when shift() gives undefined) and what is left of the array
Shift(q) ==
  IF q = <<>> THEN [next |-> <<>>, rest |-> q]
  ELSE [next |-> <<Head(q)>>, rest |-> Tail(q)]

\* a queue that catches the work's error and throws one of its own
Wrapped(r) ==
  IF r \in Fulfilled THEN r ELSE "Error"

\* `return result` / rethrow through finally: what process() settles with
PassThrough(r) ==
  r

Settlement(s, r, d, rel) ==
  [sub |-> s, work |-> r, result |-> d, released |-> rel]

Submission(s, p, n) ==
  [sub |-> s, processing |-> p, queued |-> n]

\* pc after `next()` has been called for the callbacks in rel
Release(f, rel) ==
  [s \in Subs |-> IF \E i \in 1..Len(rel) : rel[i] = s THEN "released" ELSE f[s]]

\* the submission that the next call of process() is
NextSub ==
  CHOOSE s \in Subs : pc[s] = "idle" /\ \A t \in Subs : pc[t] = "idle" => s <= t

\* no sub-operation of analyze() started
NoCalls == [summary |-> "none", metadata |-> "none", cause |-> "none"]

\* no URL parameter / no request: a parameter is present or not, and is a
\* sequence of characters
Absent == [present |-> FALSE, chars |-> <<>>]

NoQuery == [topic |-> Absent, limit |-> Absent]

NoResponse == [route |-> "none", sub |-> 0, status |-> 0, error |-> "none",
               details |-> "none", cause |-> "none", query |-> NoQuery,
               body |-> <<>>]

Param(str) == [present |-> TRUE, chars |-> str]

\* a JavaScript number or undefined
Undefined == [defined |-> FALSE, nan |-> FALSE, n |-> 0]

NaN == [defined |-> TRUE, nan |-> TRUE, n |-> 0]

Num(n) == [defined |-> TRUE, nan |-> FALSE, n |-> n]

Digits == {"0", "1", "2", "3"}

DigitValue(c) ==
  CASE c = "0" -> 0 [] c = "1" -> 1 [] c = "2" -> 2 [] c = "3" -> 3

DigitChar(n) == CHOOSE c \in Digits : DigitValue(c) = n

RECURSIVE SkipBlanks(_)
SkipBlanks(str) ==
  IF str # <<>> /\ Head(str) = " " THEN SkipBlanks(Tail(str)) ELSE str

RECURSIVE LeadingValue(_, _)
LeadingValue(str, acc) ==
  IF str = <<>> \/ Head(str) \notin Digits THEN acc
  ELSE LeadingValue(Tail(str), 10 * acc + DigitValue(Head(str)))

\* the numeral parseInt reads: leading blanks skipped, then an optional sign
Numeral(str) ==
  LET s == SkipBlanks(str)
      signed == s # <<>> /\ Head(s) \in {"-", "+"}
  IN [sign |-> IF s # <<>> /\ Head(s) = "-" THEN -1 ELSE 1,
      digits |-> IF signed THEN Tail(s) ELSE s]

\* parseInt(str, 10)
parseInt(str) ==
  LET num == Numeral(str)
  IN IF num.digits = <<>> \/ Head(num.digits) \notin Digits THEN NaN
     ELSE Num(num.sign * LeadingValue(num.digits, 0))

\* Deno.env.get(name) || fallback: an unset variable and an empty one both
\* give the fallback
OrDefault(p, fallback) ==
  IF p.present /\ p.chars # <<>> THEN p.chars ELSE fallback

\* loadConfig(): it throws when ANTHROPIC_API_KEY is unset or empty, else it
\* returns the parsed settings
loadConfig(e) ==
  [failed |-> ~e.anthropicApiKey,
   maxConcurrentRequests |->
     parseInt(OrDefault(e.MAX_CONCURRENT_REQUESTS, <<"1", "0">>)),
   maxQueueSize |-> parseInt(OrDefault(e.MAX_QUEUE_SIZE, <<"1", "0", "0">>))]

\* an environment from which loadConfig() reads the bounds c and q
EnvOf(c, q) ==
  [anthropicApiKey |-> TRUE,
   MAX_CONCURRENT_REQUESTS |-> Param(<<DigitChar(c)>>),
   MAX_QUEUE_SIZE |-> Param(<<DigitChar(q)>>)]

\* the server constructs one queue
NoPeer == [this |-> 1, fields |-> <<>>]

\* everything but the second queue
OneInit ==
  /\ text = [s \in Subs |-> "none"]
  /\ llm = [s \in Subs |-> NoCalls]
  /\ saves = [s \in Subs |-> 0]
  /\ db = <<>>
  /\ response = NoResponse
  /\ maxConcurrent \in 1..MaxConc
  /\ maxQueueSize \in 0..MaxQ
  /\ env = EnvOf(maxConcurrent, maxQueueSize)
  /\ processing = 0
  /\ queue = <<>>
  /\ resumeJobs = <<>>
  /\ pc = [s \in Subs |-> "idle"]
  /\ submitted = Submission(0, 0, 0)
  /\ waited = {}
  /\ invoked = [s \in Subs |-> 0]
  /\ incs = [s \in Subs |-> 0]
  /\ decs = [s \in Subs |-> 0]
  /\ workResult = [s \in Subs |-> NoResult]
  /\ delivered = Settlement(0, NoResult, NoResult, <<>>)
  /\ settles = [s \in Subs |-> 0]

Init ==
  /\ peer = NoPeer
  /\ OneInit

\* ------------------------------------------------------------ steps

\* a capacity check made only after the slot was taken and fn() called
RejectAfterCall(s) ==
  /\ pc' = [pc EXCEPT ![s] = "rejected"]
  /\ delivered' = Settlement(s, NoResult, CapacityError, <<>>)
  /\ settles' = [settles EXCEPT ![s] = @ + 1]
  /\ invoked' = [invoked EXCEPT ![s] = @ + 1]
  /\ incs' = [incs EXCEPT ![s] = @ + 1]
  /\ decs' = [decs EXCEPT ![s] = @ + 1]
  /\ UNCHANGED <<processing, queue, resumeJobs, waited, workResult>>

\* a rejection thrown after processing++, outside the try block: the slot
\* is never given back
RejectAfterIncrement(s) ==
  /\ pc' = [pc EXCEPT ![s] = "rejected"]
  /\ delivered' = Settlement(s, NoResult, CapacityError, <<>>)
  /\ settles' = [settles EXCEPT ![s] = @ + 1]
  /\ processing' = processing + 1
  /\ UNCHANGED <<queue, resumeJobs, waited, invoked, incs, decs, workResult>>

\* `throw new ServiceUnavailableError(...)`: the promise of process() rejects
Reject(s) ==
  /\ pc' = [pc EXCEPT ![s] = "rejected"]
  /\ delivered' = Settlement(s, NoResult, CapacityError, <<>>)
  /\ settles' = [settles EXCEPT ![s] = @ + 1]
  /\ UNCHANGED <<processing, queue, resumeJobs, waited, invoked, incs, decs,
                 workResult>>

\* a push that makes room by releasing the oldest waiter, whose work then
\* starts although no work unit has settled
EnqueueReleasesOldest(s) ==
  /\ queue' = Append(Shift(queue).rest, s)
  /\ resumeJobs' = resumeJobs \o Shift(queue).next
  /\ waited' = waited \cup {s}
  /\ pc' = Release([pc EXCEPT ![s] = "waiting"], Shift(queue).next)
  /\ UNCHANGED <<processing, invoked, incs, decs, workResult, delivered,
                 settles>>

\* `await new Promise(resolve => this.queue.push(resolve))`
Enqueue(s) ==
  /\ queue' = Append(queue, s)
  /\ waited' = waited \cup {s}
  /\ pc' = [pc EXCEPT ![s] = "waiting"]
  /\ UNCHANGED <<processing, resumeJobs, invoked, incs, decs, workResult,
                 delivered, settles>>

\* process() without try/finally around the call: a work function that
\* throws when called keeps its slot and releases nobody
StartWorkUnguarded(s, w, jobs) ==
  /\ incs' = [incs EXCEPT ![s] = @ + 1]
  /\ invoked' = [invoked EXCEPT ![s] = @ + 1]
  /\ processing' = processing + 1
  /\ resumeJobs' = jobs
  /\ UNCHANGED <<waited, workResult, decs, queue>>
  /\ IF w = "throws"
       THEN /\ pc' = [pc EXCEPT ![s] = "done"]
            /\ delivered' = Settlement(s, "thrown", PassThrough("thrown"), <<>>)
            /\ settles' = [settles EXCEPT ![s] = @ + 1]
       ELSE /\ pc' = [pc EXCEPT ![s] = "running"]
            /\ UNCHANGED <<delivered, settles>>

\* a finally block that calls no waiter when fn() threw on being called
StartWorkThrowKeepsWaiters(s, w, jobs) ==
  /\ incs' = [incs EXCEPT ![s] = @ + 1]
  /\ invoked' = [invoked EXCEPT ![s] = @ + 1]
  /\ resumeJobs' = jobs
  /\ UNCHANGED <<waited, workResult, queue>>
  /\ IF w = "throws"
       THEN /\ processing' = (processing + 1) - 1
            /\ decs' = [decs EXCEPT ![s] = @ + 1]
            /\ pc' = [pc EXCEPT ![s] = "done"]
            /\ delivered' = Settlement(s, "thrown", PassThrough("thrown"), <<>>)
            /\ settles' = [settles EXCEPT ![s] = @ + 1]
       ELSE /\ processing' = processing + 1
            /\ pc' = [pc EXCEPT ![s] = "running"]
            /\ UNCHANGED <<decs, delivered, settles>>

\* `this.processing++` and the call `fn()`.  A work function that throws
\* when called sends control through the finally block in the same step.
\* jobs is the list of pending waiter continuations once s has left it.
StartWork(s, w, jobs) ==
  /\ incs' = [incs EXCEPT ![s] = @ + 1]
  /\ invoked' = [invoked EXCEPT ![s] = @ + 1]
  /\ UNCHANGED <<waited, workResult>>
  /\ IF w = "throws"
       THEN /\ processing' = (processing + 1) - 1
            /\ decs' = [decs EXCEPT ![s] = @ + 1]
            /\ queue' = Shift(queue).rest
            /\ resumeJobs' = jobs \o Shift(queue).next
            /\ pc' = Release([pc EXCEPT ![s] = "done"], Shift(queue).next)
            /\ delivered' = Settlement(s, "thrown", PassThrough("thrown"),
                                        Shift(queue).next)
            /\ settles' = [settles EXCEPT ![s] = @ + 1]
       ELSE /\ processing' = processing + 1
            /\ resumeJobs' = jobs
            /\ pc' = [pc EXCEPT ![s] = "running"]
            /\ UNCHANGED <<decs, queue, delivered, settles>>

\* a call of process(fn), up to its first await
Process(w) ==
  /\ \E s \in Subs : pc[s] = "idle"
  /\ LET s == NextSub IN
       /\ submitted' = Submission(s, processing, Len(queue))
       /\ IF AtCapacity THEN Reject(s)
          ELSE IF MustWait THEN Enqueue(s)
          ELSE StartWork(s, w, resumeJobs)
  /\ UNCHANGED config

\* the continuation of the oldest released waiter: the code after the await
\* of its `new Promise`
Resume(w) ==
  /\ resumeJobs # <<>>
  /\ StartWork(Head(resumeJobs), w, Tail(resumeJobs))
  /\ UNCHANGED <<config, submitted>>

\* the promise returned by fn() settles
WorkSettles(s, o) ==
  /\ pc[s] = "running"
  /\ pc' = [pc EXCEPT ![s] = "settled"]
  /\ workResult' = [workResult EXCEPT ![s] = o]
  /\ UNCHANGED <<config, processing, queue, resumeJobs, submitted, waited,
                 invoked, incs, decs, delivered, settles>>

\* the cleanup written after `await fn()` instead of in a finally block: a
\* rejected work promise skips the decrement and the release
FinallyLeaksOnError(s) ==
  /\ pc[s] = "settled"
  /\ LET ok == workResult[s] \in Fulfilled
         sh == IF ok THEN Shift(queue) ELSE [next |-> <<>>, rest |-> queue]
     IN /\ processing' = IF ok THEN processing - 1 ELSE processing
        /\ decs' = [decs EXCEPT ![s] = IF ok THEN @ + 1 ELSE @]
        /\ queue' = sh.rest
        /\ resumeJobs' = resumeJobs \o sh.next
        /\ pc' = Release([pc EXCEPT ![s] = "done"], sh.next)
        /\ delivered' = Settlement(s, workResult[s],
                                    PassThrough(workResult[s]), sh.next)
  /\ workResult' = [workResult EXCEPT ![s] = NoResult]
  /\ settles' = [settles EXCEPT ![s] = @ + 1]
  /\ UNCHANGED <<config, submitted, waited, invoked, incs>>

\* the decrement in a finally block but the release after it: a rejected
\* work promise frees its slot and releases nobody
FinallyNoReleaseOnError(s) ==
  /\ pc[s] = "settled"
  /\ LET ok == workResult[s] \in Fulfilled
         sh == IF ok THEN Shift(queue) ELSE [next |-> <<>>, rest |-> queue]
     IN /\ processing' = processing - 1
        /\ decs' = [decs EXCEPT ![s] = @ + 1]
        /\ queue' = sh.rest
        /\ resumeJobs' = resumeJobs \o sh.next
        /\ pc' = Release([pc EXCEPT ![s] = "done"], sh.next)
        /\ delivered' = Settlement(s, workResult[s],
                                    PassThrough(workResult[s]), sh.next)
  /\ workResult' = [workResult EXCEPT ![s] = NoResult]
  /\ settles' = [settles EXCEPT ![s] = @ + 1]
  /\ UNCHANGED <<config, submitted, waited, invoked, incs>>

\* a catch block that decrements as well as the finally block: a rejected
\* work promise takes processing down by two
FinallyCatchAlsoDecrements(s) ==
  /\ pc[s] = "settled"
  /\ processing' = IF workResult[s] \in Fulfilled THEN processing - 1
                   ELSE processing - 2
  /\ decs' = [decs EXCEPT ![s] = @ + 1]
  /\ queue' = Shift(queue).rest
  /\ resumeJobs' = resumeJobs \o Shift(queue).next
  /\ pc' = Release([pc EXCEPT ![s] = "done"], Shift(queue).next)
  /\ delivered' = Settlement(s, workResult[s], PassThrough(workResult[s]),
                              Shift(queue).next)
  /\ workResult' = [workResult EXCEPT ![s] = NoResult]
  /\ settles' = [settles EXCEPT ![s] = @ + 1]
  /\ UNCHANGED <<config, submitted, waited, invoked, incs>>

\* the continuation after `await fn()`: the finally block, then the
\* promise of process() settles as fn() did
Finally(s) ==
  /\ pc[s] = "settled"
  /\ processing' = processing - 1
  /\ decs' = [decs EXCEPT ![s] = @ + 1]
  /\ queue' = Shift(queue).rest
  /\ resumeJobs' = resumeJobs \o Shift(queue).next
  /\ pc' = Release([pc EXCEPT ![s] = "done"], Shift(queue).next)
  /\ delivered' = Settlement(s, workResult[s], PassThrough(workResult[s]),
                              Shift(queue).next)
  /\ workResult' = [workResult EXCEPT ![s] = NoResult]
  /\ settles' = [settles EXCEPT ![s] = @ + 1]
  /\ UNCHANGED <<config, submitted, waited, invoked, incs>>

\* the steps of a queue that runs arbitrary work functions
QueueProcess(w) == Process(w) /\ UNCHANGED outside

QueueResume(w) == Resume(w) /\ UNCHANGED outside

QueueWorkSettles(s, o) == WorkSettles(s, o) /\ UNCHANGED outside

QueueFinally(s) == Finally(s) /\ UNCHANGED outside

Next ==
  \/ \E w \in WorkKinds : QueueProcess(w)
  \/ \E w \in WorkKinds : QueueResume(w)
  \/ \E s \in Subs, o \in Outcomes : QueueWorkSettles(s, o)
  \/ \E s \in Subs : QueueFinally(s)

Spec == Init /\ [][Next]_vars

\* The same steps, with the number of calls of process() held to LiveSubs.
LiveNext ==
  \/ \E w \in WorkKinds : pc[LiveSubs] = "idle" /\ QueueProcess(w)
  \/ \E w \in WorkKinds : QueueResume(w)
  \/ \E s \in Subs, o \in Outcomes : QueueWorkSettles(s, o)
  \/ \E s \in Subs : QueueFinally(s)

\* The event loop runs every pending continuation, and (the assumption the
\* queue's contract makes) every work promise settles.
FairSpec ==
  /\ Init
  /\ [][LiveNext]_vars
  /\ WF_vars(\E w \in WorkKinds : QueueResume(w))
  /\ \A s \in Subs : WF_vars(\E o \in Outcomes : QueueWorkSettles(s, o))
  /\ \A s \in Subs : WF_vars(QueueFinally(s))

TypeOK ==
  /\ processing \in Int
  /\ pc \in [Subs -> {"idle", "waiting", "released", "running", "settled",
                      "done", "rejected"}]

\* ------------------------------------------------------------ the server

\* the request bodies tried: body.text is absent, or a string of `pad`
\* leading and trailing whitespace characters around `core` other
\* characters that make `words` words
TextKinds == {"missing", "blank", "long", "padded", "oversized"}

Body(t) ==
  CASE t = "missing"   -> [present |-> FALSE, pad |-> 0, core |-> 0, words |-> 0]
    [] t = "blank"     -> [present |-> TRUE, pad |-> 3, core |-> 0, words |-> 0]
    [] t = "long"      -> [present |-> TRUE, pad |-> 0, core |-> MaxTextLength,
                           words |-> ShortTextWords]
    [] t = "padded"    -> [present |-> TRUE, pad |-> 1, core |-> MaxTextLength,
                           words |-> 1]
    [] t = "oversized" -> [present |-> TRUE, pad |-> 0,
                           core |-> MaxTextLength + 1,
                           words |-> ShortTextWords]

\* text.length
TextLength(t) == Body(t).pad + Body(t).core

\* text.trim().length
TrimmedLength(t) == Body(t).core

\* countWords(text)
countWords(t) == Body(t).words

\* validateAnalysisRequest: the error it throws, "ok" when it returns
validateAnalysisRequest(t) ==
  IF ~Body(t).present \/ TextLength(t) = 0 THEN "textRequired"
  ELSE IF TrimmedLength(t) = 0 THEN "textRequired"
  ELSE IF TrimmedLength(t) > MaxTextLength THEN "payloadTooLarge"
  ELSE "ok"

\* the errors of the server, each with the status property of its class (0
\* for a plain Error, which has none) and its message
Errors ==
  {CapacityError, "timeout", "authFailed", "unavailable", "processLLM",
   "badStructure", "badSentiment", "persistError", "textRequired",
   "payloadTooLarge", "topicRequired", "topicEmpty", "topicTooLong",
   "badLimit"}

ErrStatus(e) ==
  CASE e = CapacityError -> 503
    [] e = "timeout" -> 504
    [] e \in {"authFailed", "unavailable"} -> 503
    [] e \in {"textRequired", "topicRequired", "topicEmpty", "badLimit"} -> 400
    [] e \in {"payloadTooLarge", "topicTooLong"} -> 413
    [] OTHER -> 0

ErrMessage(e) ==
  CASE e = CapacityError -> "Server at capacity, please try again later"
    [] e = "timeout" -> "Analysis request timed out, please try again"
    [] e = "authFailed" -> "LLM service authentication failed"
    [] e = "unavailable" ->
         "LLM service temporarily unavailable, please try again later"
    [] e = "processLLM" -> "Failed to process LLM response"
    [] e = "badStructure" ->
         "Invalid metadata structure: topics must be array of 3"
    [] e = "badSentiment" -> "Invalid sentiment value"
    [] e = "persistError" -> "Failed to store analysis"
    [] e = "textRequired" -> "Text input is required and cannot be empty"
    [] e = "payloadTooLarge" ->
         "Text exceeds maximum length of 50,000 characters"
    [] e = "topicRequired" -> "Topic parameter is required"
    [] e = "topicEmpty" -> "Topic parameter cannot be empty"
    [] e = "topicTooLong" -> "Topic parameter must be 100 characters or less"
    [] e = "badLimit" -> "Limit parameter must be a positive integer"

\* hasStatus(err)
hasStatus(e) == ErrStatus(e) # 0

\* an error handler that answers every error with 500
errorHandlerAlways500(e) ==
  [status |-> 500, error |-> "Failed to process request",
   details |-> ErrMessage(e)]

\* errorHandler: status, error message and details of the response to e
errorHandler(e) ==
  IF hasStatus(e)
    THEN [status |-> ErrStatus(e), error |-> ErrMessage(e), details |-> "none"]
    ELSE [status |-> 500, error |-> "Failed to process request",
          details |-> ErrMessage(e)]

\* what the upstream API does with one messages.create: it answers with a
\* text block (holding what the prompt asked for, or text that is not JSON,
\* or JSON with the wrong topics or sentiment), answers with a block that is
\* not text, fails with an authentication error or another API error, or
\* stays silent until the timer fires
LlmEvents ==
  {"text", "notJson", "badTopics", "badSentiment", "nonText", "authError",
   "apiError", "timerFired"}

TextEvents == {"text", "notJson", "badTopics", "badSentiment"}

\* a callClaude that awaits messagePromise alone: the timer settles nothing
AwaitedMessageOnly == LlmEvents \ {"timerFired"}

\* await Promise.race([messagePromise, timeoutPromise]): what ends the wait
\* of callClaude is the upstream's answer or failure, or the timer
Awaited == LlmEvents

\* callClaude: "ok" when it returns content.text, else the error it throws
callClaude(ev) ==
  IF ev = "timerFired" THEN "timeout"
  ELSE IF ev = "authError" THEN "authFailed"
  ELSE IF ev \in TextEvents THEN "ok"
  ELSE "unavailable"

\* generateSummary, for a text of 20 words or more
generateSummary(ev) ==
  callClaude(ev)

\* extractMetadata
extractMetadata(ev) ==
  IF callClaude(ev) # "ok" THEN callClaude(ev)
  ELSE IF ev = "notJson" THEN "processLLM"
  ELSE IF ev = "badTopics" THEN "badStructure"
  ELSE IF ev = "badSentiment" THEN "badSentiment"
  ELSE "ok"

\* the failure category an upstream event belongs to
Category(ev) ==
  CASE ev = "timerFired" -> "timeout"
    [] ev = "authError" -> "auth"
    [] ev = "apiError" -> "unavailable"
    [] ev \in {"nonText", "notJson", "badTopics", "badSentiment"} -> "malformed"
    [] OTHER -> "none"

\* a short text test that takes a text of exactly 20 words for short
ShortTextInclusive(t) == countWords(t) <= ShortTextWords

\* generateSummary's test `wordCount < 20`
ShortText(t) == countWords(t) < ShortTextWords

SubOp(op, ev) ==
  IF op = "summary" THEN generateSummary(ev) ELSE extractMetadata(ev)

\* analyze(text) up to its await of Promise.all: generateSummary returns
\* a short text as it is, without a call ("verbatim"), else both
\* sub-operations call callClaude and wait
AnalyzeBegins(s, t) ==
  llm' = [llm EXCEPT ![s] =
    [NoCalls EXCEPT !.summary = IF ShortText(t) THEN "verbatim" ELSE "pending",
                    !.metadata = "pending"]]

\* fn() is called in this step exactly when s goes to "running"
WorkBegins(s, t) ==
  IF pc'[s] = "running" THEN AnalyzeBegins(s, t) ELSE UNCHANGED llm

\* the calls of callClaude made so far for a request still being handled
LlmCalls(s) ==
  Cardinality({op \in {"summary", "metadata"} :
                 llm[s][op] \in {"pending", "ok", "over"}})

Reply(route, s, r, c) ==
  [NoResponse EXCEPT !.route = route, !.sub = s, !.status = r.status,
                     !.error = r.error, !.details = r.details, !.cause = c]

Success == [status |-> 200, error |-> "none", details |-> "none"]

\* validateAnalysisRequest throws: the error handler answers
Refuse(t) ==
  /\ response' = Reply("analyze", 0, errorHandler(validateAnalysisRequest(t)),
                       "validation")
  /\ UNCHANGED <<config, processing, queue, resumeJobs,
                 pc, submitted, waited, invoked, incs, decs, workResult,
                 delivered, settles, text, llm, saves, db>>

\* `await queue.process(async () => ...)` up to its first await; the error
\* handler answers when process() rejects the request
Admit(t) ==
  /\ pc[HttpSubs] = "idle"
  /\ Process("async")
  /\ text' = [text EXCEPT ![NextSub] = t]
  /\ WorkBegins(NextSub, t)
  /\ response' = IF pc'[NextSub] = "rejected"
                   THEN Reply("analyze", NextSub,
                              errorHandler(delivered'.result), "capacity")
                   ELSE response
  /\ UNCHANGED <<saves, db>>

\* a handler that passes every body on to the queue
handleAnalyzeUnvalidated(t) ==
  /\ response = NoResponse
  /\ Admit(t)

\* POST /analyze, up to the first await inside queue.process
handleAnalyze(t) ==
  /\ response = NoResponse
  /\ IF validateAnalysisRequest(t) # "ok" THEN Refuse(t) ELSE Admit(t)

\* the continuation of a released request
ResumeAnalyze ==
  /\ response = NoResponse
  /\ Resume("async")
  /\ WorkBegins(Head(resumeJobs), text[Head(resumeJobs)])
  /\ UNCHANGED <<text, saves, db, response>>

\* CHECK(length(text) > 0 AND length(text) <= 50000) of table analyses
CheckText(t) ==
  TextLength(t) > 0 /\ TextLength(t) <= MaxTextLength

\* an INSERT that leaves its row behind when the statement fails
saveNotAtomic(rows, row, writable) ==
  [ok |-> writable /\ CheckText(row.text), rows |-> Append(rows, row)]

\* a save that catches the failure of the INSERT and returns normally
saveSwallowsError(rows, row, writable) ==
  IF writable /\ CheckText(row.text)
    THEN [ok |-> TRUE, rows |-> Append(rows, row)]
    ELSE [ok |-> TRUE, rows |-> rows]

\* repository.save(analysis): the INSERT adds the row, or fails (the CHECK
\* constraint, or the database cannot be written) and save throws
save(rows, row, writable) ==
  IF writable /\ CheckText(row.text)
    THEN [ok |-> TRUE, rows |-> Append(rows, row)]
    ELSE [ok |-> FALSE, rows |-> rows]

\* new Date().toISOString() read tick milliseconds after the latest row's
Now(rows, tick) ==
  IF rows = <<>> THEN 1 ELSE rows[Len(rows)].createdAt + tick

Ticks == {0, 1}

\* the server runs store their analyses a millisecond apart
HttpTicks == {1}

\* the topics the LLM extracts from the texts of the server runs
LlmTopics == << <<"a","B">>, <<"c">>, <<"c","a">> >>

Analysis(id, t, topics, at) ==
  [id |-> id, text |-> t, topics |-> topics, createdAt |-> at]

OtherOp(op) == IF op = "summary" THEN "metadata" ELSE "summary"

\* the sub-operations of a call of analyze() that has settled: nobody
\* waits for the one still pending, the others are over
Settled(c, cause) ==
  [summary |-> IF c.summary \in {"pending", "verbatim"} THEN c.summary
               ELSE "over",
   metadata |-> IF c.metadata = "pending" THEN "pending" ELSE "over",
   cause |-> cause]

\* One of the two sub-operations of request s settles, and the code that
\* waits for it runs on.  The first rejection rejects Promise.all, analyze
\* and the work function with that error.  The fulfilment that completes
\* both lets analyze build the analysis and the work function save and
\* return it.  Nobody waits for a call that settles after that.
LlmSettles(s, op, ev, writable, tick) ==
  /\ response = NoResponse
  /\ llm[s][op] = "pending"
  /\ ev \in Awaited
  /\ UNCHANGED <<text, response>>
  /\ IF pc[s] # "running"
       THEN /\ llm' = [llm EXCEPT ![s][op] = "over"]
            /\ UNCHANGED <<config, processing, queue,
                           resumeJobs, pc, submitted, waited, invoked, incs,
                           decs, workResult, delivered, settles, saves, db>>
       ELSE IF SubOp(op, ev) # "ok"
         THEN /\ llm' = [llm EXCEPT ![s] =
                          Settled([@ EXCEPT ![op] = "failed"], Category(ev))]
              /\ WorkSettles(s, SubOp(op, ev))
              /\ UNCHANGED <<saves, db>>
       ELSE IF llm[s][OtherOp(op)] = "pending"
         THEN /\ llm' = [llm EXCEPT ![s][op] = "ok"]
              /\ UNCHANGED <<config, processing, queue,
                             resumeJobs, pc, submitted, waited, invoked, incs,
                             decs, workResult, delivered, settles, saves, db>>
       ELSE LET sv == save(db, Analysis(s, text[s], LlmTopics, Now(db, tick)),
                           writable)
            IN /\ db' = sv.rows
               /\ saves' = [saves EXCEPT ![s] = @ + 1]
               /\ llm' = [llm EXCEPT ![s] =
                           Settled([@ EXCEPT ![op] = "ok"],
                                   IF sv.ok THEN "none" ELSE "persist")]
               /\ WorkSettles(s, IF sv.ok THEN "value" ELSE "persistError")

\* the rows of table analyses with the given id
RowsOf(s) == SelectSeq(db, LAMBDA r : r.id = s)

\* the finally block of process() for request s, then handleAnalyze's
\* continuation: the 200 response, or the error handler's
FinallyAnalyze(s) ==
  /\ response = NoResponse
  /\ Finally(s)
  /\ response' =
       IF workResult[s] \in Fulfilled
         THEN [Reply("analyze", s, Success, "none") EXCEPT !.body = RowsOf(s)]
         ELSE Reply("analyze", s, errorHandler(delivered'.result),
                    llm[s].cause)
  /\ llm' = [llm EXCEPT ![s] =
       [summary |-> IF @.summary = "pending" THEN "pending" ELSE "over",
        metadata |-> IF @.metadata = "pending" THEN "pending" ELSE "over",
        cause |-> "none"]]
  /\ text' = [text EXCEPT ![s] = "none"]
  /\ UNCHANGED <<saves, db>>

\* ------------------------------------------------------------ search

\* a string is a sequence of characters

Lower(c) ==
  CASE c = "A" -> "a" [] c = "B" -> "b" [] c = "C" -> "c" [] OTHER -> c

\* String.prototype.toLowerCase and SQL LOWER, on ASCII
toLowerCase(str) == [i \in 1..Len(str) |-> Lower(str[i])]

\* String.prototype.trim
RECURSIVE TrimStart(_)
TrimStart(str) ==
  IF str # <<>> /\ Head(str) = " " THEN TrimStart(Tail(str)) ELSE str

RECURSIVE TrimEnd(_)
TrimEnd(str) ==
  IF str # <<>> /\ str[Len(str)] = " "
    THEN TrimEnd(SubSeq(str, 1, Len(str) - 1)) ELSE str

trim(str) == TrimEnd(TrimStart(str))

\* JSON.stringify of a string: quotes around it, a backslash before each
\* quote and backslash
RECURSIVE Escape(_)
Escape(str) ==
  IF str = <<>> THEN <<>>
  ELSE IF Head(str) \in {"\"", "\\"}
    THEN <<"\\", Head(str)>> \o Escape(Tail(str))
  ELSE <<Head(str)>> \o Escape(Tail(str))

JsonString(str) == <<"\"">> \o Escape(str) \o <<"\"">>

RECURSIVE JsonElements(_)
JsonElements(ts) ==
  IF ts = <<>> THEN <<>>
  ELSE IF Len(ts) = 1 THEN JsonString(ts[1])
  ELSE JsonString(Head(ts)) \o <<",">> \o JsonElements(Tail(ts))

\* json_extract(metadata, '$.topics'): the JSON text of the array
JsonArray(ts) == <<"[">> \o JsonElements(ts) \o <<"]">>

\* the generated column topics_searchable of a row
topics_searchable(row) == toLowerCase(JsonArray(row.topics))

\* SQL LIKE without ESCAPE: % matches any run of characters, _ any one
\* character, every other character itself, ASCII letters in either case
RECURSIVE Like(_, _)
Like(str, pattern) ==
  IF pattern = <<>> THEN str = <<>>
  ELSE IF Head(pattern) = "%"
    THEN Like(str, Tail(pattern)) \/ (str # <<>> /\ Like(Tail(str), pattern))
  ELSE /\ str # <<>>
       /\ Head(pattern) = "_" \/ Lower(Head(pattern)) = Lower(Head(str))
       /\ Like(Tail(str), Tail(pattern))

\* `limit ?`: the number is neither undefined nor NaN nor 0
Truthy(limit) == limit.defined /\ ~limit.nan /\ limit.n # 0

\* WHERE topics_searchable LIKE '%' || lower(topic) || '%'
Matching(rows, topic) ==
  {i \in 1..Len(rows) :
     Like(topics_searchable(rows[i]), <<"%">> \o toLowerCase(topic) \o <<"%">>)}

\* ORDER BY created_at DESC: the rows numbered idx in every order the
\* clause allows (rows of equal created_at come in either order)
OrderedDesc(rows, idx) ==
  {[i \in 1..Cardinality(idx) |-> rows[f[i]]] :
     f \in {g \in [1..Cardinality(idx) -> idx] :
              /\ \A i, j \in 1..Cardinality(idx) : g[i] = g[j] => i = j
              /\ \A i, j \in 1..Cardinality(idx) :
                   i < j => rows[g[i]].createdAt >= rows[g[j]].createdAt}}

\* LIMIT ?, present in the statement only when `limit` is truthy
Limit(found, limit) ==
  IF Truthy(limit) /\ limit.n < Len(found) THEN SubSeq(found, 1, limit.n)
  ELSE found

\* repository.searchByTopic(topic, limit): the results the database may give
searchByTopic(rows, topic, limit) ==
  {Limit(found, limit) : found \in OrderedDesc(rows, Matching(rows, topic))}

\* validateSearchQuery: the error it throws, "ok" when it returns
validateSearchQuery(query) ==
  IF query.topic = <<>> THEN "topicRequired"
  ELSE IF Len(trim(query.topic)) = 0 THEN "topicEmpty"
  ELSE IF Len(query.topic) > MaxTopicLength THEN "topicTooLong"
  ELSE IF query.limit.defined /\ (query.limit.nan \/ query.limit.n < 1)
    THEN "badLimit"
  ELSE "ok"

\* the SearchQuery handleSearch builds from the URL parameters
SearchQuery(q) ==
  [topic |-> IF q.topic.present THEN q.topic.chars ELSE <<>>,
   limit |-> IF q.limit.present /\ q.limit.chars # <<>>
               THEN parseInt(q.limit.chars) ELSE Undefined]

\* searchService.search(query) and the response: the error handler's when
\* validation throws, else 200 with the rows found
search(q) ==
  IF validateSearchQuery(SearchQuery(q)) # "ok"
    THEN {[Reply("search", 0, errorHandler(validateSearchQuery(SearchQuery(q))),
                 "validation") EXCEPT !.query = q]}
    ELSE {[Reply("search", 0, Success, "none") EXCEPT
             !.query = q, !.body = found] :
          found \in searchByTopic(db, SearchQuery(q).topic,
                                  SearchQuery(q).limit)}

\* a search route registered behind the admission check
handleSearchBehindQueue(q) ==
  /\ response = NoResponse
  /\ response' \in
       IF AtCapacity
         THEN {[Reply("search", 0, errorHandler(CapacityError), "capacity")
                  EXCEPT !.query = q]}
         ELSE search(q)
  /\ UNCHANGED <<config, processing, queue, resumeJobs,
                 pc, submitted, waited, invoked, incs, decs, workResult,
                 delivered, settles, text, llm, saves, db>>

\* GET /search
handleSearch(q) ==
  /\ response = NoResponse
  /\ response' \in search(q)
  /\ UNCHANGED <<config, processing, queue, resumeJobs,
                 pc, submitted, waited, invoked, incs, decs, workResult,
                 delivered, settles, text, llm, saves, db>>

\* the URL parameters tried against the running server
HttpQueries ==
  {[topic |-> Param(<<"b">>), limit |-> Absent],
   [topic |-> Param(<<"c">>), limit |-> Param(<<"1">>)]}

\* the response is sent and the request is over: the records of how it
\* went are dropped
ResponseSent ==
  /\ response # NoResponse
  /\ response' = NoResponse
  /\ delivered' = Settlement(0, NoResult, NoResult, <<>>)
  /\ UNCHANGED <<config, processing, queue, resumeJobs,
                 pc, submitted, waited, invoked, incs, decs, workResult,
                 settles, text, llm, saves, db>>

\* the queue configurations that HttpSubs requests can fill
HttpInit ==
  Init /\ maxConcurrent + maxQueueSize <= HttpSubs

HttpNext ==
  \/ \E t \in TextKinds : handleAnalyze(t)
  \/ ResumeAnalyze
  \/ \E s \in Subs, op \in {"summary", "metadata"}, ev \in LlmEvents,
          writable \in BOOLEAN, tick \in HttpTicks :
       LlmSettles(s, op, ev, writable, tick)
  \/ \E s \in Subs : FinallyAnalyze(s)
  \/ \E q \in HttpQueries : handleSearch(q)
  \/ ResponseSent

\* the server: requests arrive, LLM calls settle, continuations run
HttpSpec == HttpInit /\ [][HttpNext]_vars

\* the timer of one call of callClaude fires while the call is pending
TimerFires(s, op) ==
  \E writable \in BOOLEAN, tick \in HttpTicks :
    LlmSettles(s, op, "timerFired", writable, tick)

\* one slot and one waiter: a request that held its slot forever would
\* keep the next one waiting forever
TimedInit ==
  Init /\ maxConcurrent = 1 /\ maxQueueSize = 1

\* the server under TimedSubs POST /analyze requests that pass validation
TimedNext ==
  \/ \E t \in {"long", "padded"} : pc[TimedSubs] = "idle" /\ handleAnalyze(t)
  \/ ResumeAnalyze
  \/ \E s \in Subs, op \in {"summary", "metadata"}, ev \in LlmEvents,
          writable \in BOOLEAN, tick \in HttpTicks :
       LlmSettles(s, op, ev, writable, tick)
  \/ \E s \in Subs : FinallyAnalyze(s)
  \/ ResponseSent

\* The event loop runs every pending continuation and every timer set with
\* setTimeout (callClaude never clears its timer); the upstream API is free
\* never to answer.
TimedSpec ==
  /\ TimedInit
  /\ [][TimedNext]_vars
  /\ WF_vars(ResponseSent)
  /\ WF_vars(ResumeAnalyze)
  /\ \A s \in 1..TimedSubs : WF_vars(FinallyAnalyze(s))
  /\ \A s \in 1..TimedSubs, op \in {"summary", "metadata"} :
       WF_vars(TimerFires(s, op))

\* the topic lists of the stored analyses searched
TopicLists ==
  {<< <<"a","B">>, <<"c">>, <<"c","a">> >>,
   << <<"b">>, <<"b","b">>, <<"c">> >>,
   << <<"c">>, <<"c","c">>, <<"C","b">> >>}

\* the characters of the search terms tried: letters, characters of the
\* JSON text of an array of strings, the LIKE wildcards
Alphabet == {"a", "B", ",", "\"", "%", "_"}

Terms ==
  {<<>>} \cup {<<c>> : c \in Alphabet} \cup {<<c, d>> : c, d \in Alphabet}

Limits == {Absent, Param(<<"0">>), Param(<<"1">>), Param(<<"2">>)}

SearchQueries ==
  {[topic |-> Param(t), limit |-> l] : t \in Terms, l \in Limits}
    \cup {[topic |-> Absent, limit |-> l] : l \in Limits}

\* repository.save of an analysis the LLM gave the topics ts
saveAnalysis(ts, tick) ==
  /\ Len(db) < MaxRows
  /\ response = NoResponse
  /\ db' = save(db, Analysis(Len(db) + 1, "long", ts, Now(db, tick)),
                TRUE).rows
  /\ UNCHANGED <<config, processing, queue, resumeJobs,
                 pc, submitted, waited, invoked, incs, decs, workResult,
                 delivered, settles, text, llm, saves, response>>

\* the queue plays no part in a search: one configuration will do
SearchInit ==
  Init /\ maxConcurrent = 1 /\ maxQueueSize = 0

SearchNext ==
  \/ \E ts \in TopicLists, tick \in Ticks : saveAnalysis(ts, tick)
  \/ \E q \in SearchQueries : handleSearch(q)
  \/ ResponseSent

\* the repository alone: analyses are stored, searches run
SearchSpec == SearchInit /\ [][SearchNext]_vars

\* ------------------------------------------------------------ two queues

\* the fields of the instance the queue variables belong to, and what is
\* recorded about its submissions
ThisFields ==
  [maxConcurrent |-> maxConcurrent, maxQueueSize |-> maxQueueSize,
   processing |-> processing, queue |-> queue, resumeJobs |-> resumeJobs,
   pc |-> pc, submitted |-> submitted, waited |-> waited,
   invoked |-> invoked, incs |-> incs, decs |-> decs,
   workResult |-> workResult, delivered |-> delivered, settles |-> settles]

\* new RequestQueue(c, q): processing = 0 and a new empty array
Constructed(c, q) ==
  [maxConcurrent |-> c, maxQueueSize |-> q,
   processing |-> 0, queue |-> <<>>, resumeJobs |-> <<>>,
   pc |-> [s \in Subs |-> "idle"], submitted |-> Submission(0, 0, 0),
   waited |-> {}, invoked |-> [s \in Subs |-> 0],
   incs |-> [s \in Subs |-> 0], decs |-> [s \in Subs |-> 0],
   workResult |-> [s \in Subs |-> NoResult],
   delivered |-> Settlement(0, NoResult, NoResult, <<>>),
   settles |-> [s \in Subs |-> 0]]

\* one waiter array for the class: every instance's this.queue is that array
BindSharedWaiters(mine, theirs) ==
  [theirs EXCEPT !.queue = mine.queue]

\* `private processing = 0; private queue: Array<() => void> = []`: the
\* field initialisers run for each instance, so `this` of the other
\* instance reaches that instance's own fields and nothing of the first
Bind(mine, theirs) ==
  theirs

\* the next method call or continuation belongs to the other instance
UseOther ==
  /\ peer.fields # <<>>
  /\ LET f == Bind(ThisFields, peer.fields) IN
       /\ peer' = [this |-> 3 - peer.this, fields |-> ThisFields]
       /\ maxConcurrent' = f.maxConcurrent
       /\ maxQueueSize' = f.maxQueueSize
       /\ processing' = f.processing
       /\ queue' = f.queue
       /\ resumeJobs' = f.resumeJobs
       /\ pc' = f.pc
       /\ submitted' = f.submitted
       /\ waited' = f.waited
       /\ invoked' = f.invoked
       /\ incs' = f.incs
       /\ decs' = f.decs
       /\ workResult' = f.workResult
       /\ delivered' = f.delivered
       /\ settles' = f.settles
  /\ UNCHANGED <<env, outside>>

\* two queues of one slot and one waiter each
TwoInit ==
  /\ OneInit
  /\ maxConcurrent = 1 /\ maxQueueSize = 1
  /\ peer = [this |-> 1, fields |-> Constructed(1, 1)]

\* the steps of either queue, with TwoSubs calls of process() on each
TwoNext ==
  \/ \E w \in WorkKinds : pc[TwoSubs] = "idle" /\ QueueProcess(w)
  \/ \E w \in WorkKinds : QueueResume(w)
  \/ \E s \in Subs, o \in Outcomes : QueueWorkSettles(s, o)
  \/ \E s \in Subs : QueueFinally(s)
  \/ UseOther

TwoSpec == TwoInit /\ [][TwoNext]_vars

\* the fields of instance i
FieldsOf(i) == IF peer.this = i THEN ThisFields ELSE peer.fields

\* ------------------------------------------------------------ startup

\* the values tried for MAX_CONCURRENT_REQUESTS and MAX_QUEUE_SIZE: unset,
\* or up to two characters
EnvChars == {"-", "0", "1", "a"}

EnvValues ==
  {Absent, Param(<<>>)} \cup {Param(<<a>>) : a \in EnvChars}
    \cup {Param(<<a, b>>) : a \in EnvChars, b \in EnvChars}

Envs ==
  [anthropicApiKey : BOOLEAN, MAX_CONCURRENT_REQUESTS : EnvValues,
   MAX_QUEUE_SIZE : EnvValues]

\* main() up to `new RequestQueue(config.maxConcurrentRequests,
\* config.maxQueueSize)`: when loadConfig() throws, main() ends and no queue
\* is constructed; else the constructor stores the two numbers as they are
main ==
  /\ ~maxConcurrent.defined
  /\ IF loadConfig(env).failed
       THEN UNCHANGED <<maxConcurrent, maxQueueSize>>
       ELSE /\ maxConcurrent' = loadConfig(env).maxConcurrentRequests
            /\ maxQueueSize' = loadConfig(env).maxQueueSize
  /\ UNCHANGED <<env, peer, processing, queue, resumeJobs, pc, submitted, waited,
                 invoked, incs, decs, workResult, delivered, settles, outside>>

\* the process before main() runs, in every environment tried; the two
\* constructor parameters are JavaScript numbers here, and undefined until
\* the queue is constructed
StartInit ==
  /\ env \in Envs
  /\ peer = NoPeer
  /\ maxConcurrent = Undefined
  /\ maxQueueSize = Undefined
  /\ processing = 0
  /\ queue = <<>>
  /\ resumeJobs = <<>>
  /\ pc = [s \in Subs |-> "idle"]
  /\ submitted = Submission(0, 0, 0)
  /\ waited = {}
  /\ invoked = [s \in Subs |-> 0]
  /\ incs = [s \in Subs |-> 0]
  /\ decs = [s \in Subs |-> 0]
  /\ workResult = [s \in Subs |-> NoResult]
  /\ delivered = Settlement(0, NoResult, NoResult, <<>>)
  /\ settles = [s \in Subs |-> 0]
  /\ text = [s \in Subs |-> "none"]
  /\ llm = [s \in Subs |-> NoCalls]
  /\ saves = [s \in Subs |-> 0]
  /\ db = <<>>
  /\ response = NoResponse

StartNext == main

StartSpec == StartInit /\ [][StartNext]_vars


\* ------------------------------------------------------------ properties

Admitted == {"waiting", "released", "running", "settled"}

Executing == {"running", "settled"}

\* the latest call of process() found the queue exactly full
FoundFull ==
  submitted.processing = maxConcurrent /\ submitted.queued = maxQueueSize

\* C1: in every reachable state 0 <= processing <= maxConcurrent.
C1_InFlightWithinBounds ==
  0 <= processing /\ processing <= maxConcurrent

\* C2: in every reachable state the waiter list holds at most maxQueueSize
\* entries.
C2_WaitersWithinBound ==
  Len(queue) <= maxQueueSize

\* a full waiter list has turned a submission away
C2_Witness ==
  /\ maxQueueSize >= 1
  /\ Len(queue) = maxQueueSize
  /\ submitted.sub \in Subs
  /\ pc[submitted.sub] = "rejected"
  /\ submitted.queued = maxQueueSize

\* C3: a submission is rejected if and only if, on entry, processing equals
\* maxConcurrent and the waiter list length equals maxQueueSize.
C3_RejectedIffExactlyFull ==
  submitted.sub \in Subs =>
    (pc[submitted.sub] = "rejected" <=> FoundFull)

\* C4: the work function of a rejected submission is never called.
C4_RejectedNeverInvoked ==
  \A s \in Subs :
    pc[s] = "rejected" => invoked[s] = 0

\* a submission was rejected and the queue went on to run later submissions
C4_Witness ==
  \E s, t \in Subs :
    /\ pc[s] = "rejected"
    /\ s < t
    /\ pc[t] = "done"
    /\ invoked[s] = 0

\* C5: an admitted submission has processing incremented exactly once, when
\* its work is called, and decremented exactly once, when its work has
\* settled, whatever the outcome of the work.
C5_OneIncrementOneDecrement ==
  \A s \in Subs :
    /\ incs[s] = invoked[s]
    /\ pc[s] \in {"idle", "waiting", "released", "rejected"} =>
         (incs[s] = 0 /\ decs[s] = 0)
    /\ pc[s] \in Executing => (incs[s] = 1 /\ decs[s] = 0)
    /\ pc[s] = "done" => (incs[s] = 1 /\ decs[s] = 1)

\* a waiter's work has failed in the persistence write and its slot is back
C5_Witness ==
  /\ delivered.sub \in waited
  /\ delivered.work = "persistError"
  /\ pc[delivered.sub] = "done"
  /\ decs[delivered.sub] = 1

\* C6: of two submissions that both waited, the one enqueued first has its
\* work called first: when a waiter's work is called, the work of every
\* earlier waiter has been called already.
C6_WaitersStartInOrder ==
  [][\A a, b \in waited :
       (a < b /\ invoked'[b] > invoked[b]) => invoked[a] >= 1]_vars

\* the latest submission joined an earlier waiter in the waiter list and
\* both have started
C6_Witness ==
  \E a, b \in waited :
    /\ a < b
    /\ submitted.sub = b
    /\ submitted.queued >= 1
    /\ invoked[a] = 1 /\ invoked[b] = 1

\* C7: the promise of process() settles exactly as the work did, with the
\* same value or the same error.
C7_OutcomePassedThrough ==
  /\ delivered.work # NoResult => delivered.result = delivered.work
  /\ \A s \in Subs : pc[s] = "done" => settles[s] = 1
  /\ \A s \in Subs : pc[s] \in Admitted => settles[s] = 0

\* the caller of a submission that waited received its work's timeout error
C7_Witness ==
  /\ delivered.sub \in waited
  /\ delivered.work = "timeout"
  /\ delivered.result = "timeout"

\* the work of submission f ended in failure in this step
FailsNow(f) ==
  /\ decs'[f] = decs[f] + 1
  /\ delivered'.sub = f
  /\ delivered'.work \notin Fulfilled

\* C8: when a work unit fails while submissions are waiting, its finally
\* block releases the oldest waiter, and that waiter's work is then called.
C8_FailureReleasesOldest ==
  /\ [][\A f \in Subs :
          (FailsNow(f) /\ queue # <<>>) =>
             /\ queue' = Tail(queue)
             /\ pc'[Head(queue)] = "released"
             /\ resumeJobs'[Len(resumeJobs')] = Head(queue)]_vars
  /\ \A w \in Subs :
       (/\ queue # <<>> /\ Head(queue) = w
        /\ \E f \in Subs : pc[f] = "settled" /\ workResult[f] \in Failures)
         ~> (invoked[w] = 1)

\* the waiter released by a failed work unit is executing
C8_Witness ==
  \E w \in waited :
    /\ delivered.released = <<w>>
    /\ delivered.work \in Failures
    /\ pc[w] = "running"

\* C9: if every work unit settles, every admitted submission has its work
\* called and its promise settled, exactly once.
C9_AdmittedEventuallySettles ==
  /\ \A s \in Subs :
       (pc[s] \in Admitted)
         ~> (pc[s] = "done" /\ invoked[s] = 1 /\ settles[s] = 1)
  /\ [](\A s \in Subs : settles[s] <= 1 /\ invoked[s] <= 1)

\* every admitted submission, a waiter among them, has settled
C9_Witness ==
  /\ pc[1] # "idle"
  /\ \A s \in Subs : pc[s] \notin Admitted
  /\ \E s \in waited : pc[s] = "done" /\ settles[s] = 1 /\ invoked[s] = 1

\* C10: at most maxConcurrent + maxQueueSize submissions are admitted and
\* not settled, and a submission that finds maxConcurrent executing and
\* maxQueueSize waiting is rejected.
C10_AdmittedWithinCapacity ==
  /\ Cardinality({s \in Subs : pc[s] \in Admitted})
        <= maxConcurrent + maxQueueSize
  /\ (submitted.sub \in Subs /\ FoundFull) => pc[submitted.sub] = "rejected"

InSeq(x, q) == \E i \in 1..Len(q) : q[i] = x

NoDuplicates(q) == \A i, j \in 1..Len(q) : q[i] = q[j] => i = j

\* C11: with maxQueueSize = 0 the waiter list is always empty: a submission
\* starts or is rejected in the step that makes it, and none is suspended.
C11_NoQueueingWhenSizeZero ==
  maxQueueSize = 0 =>
    /\ queue = <<>>
    /\ resumeJobs = <<>>
    /\ waited = {}
    /\ \A s \in Subs : pc[s] \notin {"waiting", "released"}

\* without a waiter list, one submission was turned away while another ran
C11_Witness ==
  /\ maxQueueSize = 0
  /\ submitted.sub \in Subs
  /\ pc[submitted.sub] = "rejected"
  /\ submitted.processing = maxConcurrent
  /\ \E t \in Subs : pc[t] = "done"

\* C12: a submission leaves the waiter list only by having its callback
\* called, and that happens once: it is never dropped, never released twice
\* and never put back.
C12_WaiterReleasedExactlyOnce ==
  /\ [](/\ NoDuplicates(queue)
        /\ NoDuplicates(resumeJobs)
        /\ \A s \in Subs : InSeq(s, queue) <=> pc[s] = "waiting"
        /\ \A s \in Subs : InSeq(s, resumeJobs) <=> pc[s] = "released")
  /\ [][\A s \in Subs :
          /\ (InSeq(s, queue) /\ ~InSeq(s, queue')) =>
               (pc'[s] = "released" /\ delivered'.released = <<s>>)
          /\ (pc[s] # "released" /\ pc'[s] = "released") =>
               InSeq(s, queue)
          /\ (~InSeq(s, queue) /\ InSeq(s, queue')) => pc[s] = "idle"
          /\ pc[s] = "waiting" => pc'[s] \in {"waiting", "released"}]_vars

\* a waiter was released by a work unit that succeeded and has finished
C12_Witness ==
  \E s \in waited :
    /\ pc[s] = "done"
    /\ ~InSeq(s, queue)
    /\ decs[s] = 1
    /\ delivered.sub = s

\* this step runs the finally block of process() for s: the work of s has
\* settled before, or fn() throws when it is called
Finishing(s) ==
  \/ pc[s] = "settled" /\ pc'[s] = "done"
  \/ pc[s] \in {"idle", "released"} /\ pc'[s] = "done"

\* C28: the queue frees a slot and releases a waiter only in a step where a
\* work unit settles: while no unit settles, processing does not decrease,
\* every waiter keeps waiting, and a submission that finds the slots taken
\* and the waiter list full is rejected.
C28_SlotFreedOnlyOnSettlement ==
  [][/\ processing' < processing =>
          \E s \in Subs : pc[s] = "settled" /\ pc'[s] = "done"
     /\ \A s \in Subs : decs'[s] # decs[s] => Finishing(s)
     /\ \A w \in Subs :
          (pc[w] = "waiting" /\ pc'[w] # "waiting") =>
             \E s \in Subs : Finishing(s)
     /\ (\A s \in Subs : ~Finishing(s)) =>
          /\ processing' >= processing
          /\ Len(queue') >= Len(queue)
          /\ (/\ submitted' # submitted
              /\ processing >= maxConcurrent
              /\ Len(queue) >= maxQueueSize) =>
                pc'[submitted'.sub] = "rejected"]_vars

\* every slot is held by work that has not settled, the waiter list is
\* full, the latest submission was rejected, and an earlier unit's
\* settlement has already released a waiter
C28_Witness ==
  /\ maxQueueSize >= 1
  /\ processing = maxConcurrent
  /\ Cardinality({s \in Subs : pc[s] = "running"}) = maxConcurrent
  /\ \A s \in Subs : pc[s] # "settled"
  /\ Len(queue) = maxQueueSize
  /\ submitted.sub \in Subs /\ pc[submitted.sub] = "rejected"
  /\ \E s \in waited : pc[s] = "running"

\* the waiters that this step takes out of the waiting state
ReleasedNow == {w \in Subs : pc[w] = "waiting" /\ pc'[w] # "waiting"}

\* C29: each settlement of a work unit, by success or by failure, decrements
\* processing and then removes and releases exactly one waiter, the oldest,
\* when the waiter list is not empty, and none when it is empty; no
\* settlement releases two waiters.
C29_SettlementReleasesOneOldest ==
  [][\A s \in Subs :
       Finishing(s) =>
         /\ decs'[s] = decs[s] + 1
         /\ processing' = IF pc[s] = "settled" THEN processing - 1
                          ELSE processing
         /\ Cardinality(ReleasedNow) <= 1
         /\ IF queue # <<>>
              THEN /\ ReleasedNow = {Head(queue)}
                   /\ queue' = Tail(queue)
                   /\ pc'[Head(queue)] = "released"
                   /\ delivered'.released = <<Head(queue)>>
                   /\ resumeJobs'[Len(resumeJobs')] = Head(queue)
              ELSE /\ ReleasedNow = {}
                   /\ queue' = <<>>
                   /\ delivered'.released = <<>>]_vars

\* a unit that succeeded and a unit that failed have each released one
\* waiter while another submission went on waiting
C29_Witness ==
  /\ queue # <<>>
  /\ Len(delivered.released) = 1
  /\ delivered.work \in Failures
  /\ \E s \in Subs :
       pc[s] = "done" /\ s # delivered.sub /\ decs[s] = 1 /\ s \notin waited
  /\ Cardinality({w \in waited : pc[w] # "waiting"}) = 2

\* C30: when a unit settles while processing = maxConcurrent and a
\* submission is waiting, the freed slot goes to the oldest waiter: the
\* settlement takes that waiter, and only it, off the list, and when the
\* waiter begins executing processing is back at maxConcurrent, whatever
\* submissions arrived in between.
C30_FreedSlotGoesToOldestWaiter ==
  [][/\ \A s \in Subs :
          (/\ pc[s] = "settled" /\ pc'[s] = "done"
           /\ processing = maxConcurrent /\ queue # <<>>) =>
             /\ queue' = Tail(queue)
             /\ pc'[Head(queue)] = "released"
             /\ processing' = maxConcurrent - 1
     /\ \A w \in Subs :
          (pc[w] = "released" /\ pc'[w] = "running") =>
             processing' <= maxConcurrent]_vars

\* C31: a submission that finds processing < maxConcurrent is not put on
\* the waiter list and its work is called in the step of the submission;
\* so k <= maxConcurrent submissions made before any work settles are all
\* executing, none waiting, none rejected.
C31_FreeSlotStartsAtOnce ==
  /\ [][(submitted' # submitted /\ processing < maxConcurrent) =>
          /\ invoked'[submitted'.sub] = 1
          /\ incs'[submitted'.sub] = 1
          /\ pc'[submitted'.sub] \in {"running", "done"}
          /\ submitted'.sub \notin waited'
          /\ queue' = IF pc'[submitted'.sub] = "done" /\ queue # <<>>
                        THEN Tail(queue) ELSE queue]_vars
  /\ []((/\ Cardinality({s \in Subs : pc[s] # "idle"}) <= maxConcurrent
          /\ \A s \in Subs : pc[s] \notin {"settled", "done"}) =>
            /\ \A s \in Subs : pc[s] \in {"idle", "running"}
            /\ processing = Cardinality({s \in Subs : pc[s] = "running"})
            /\ queue = <<>> /\ waited = {})

\* maxConcurrent submissions, more than one, made to an idle queue are all
\* executing and nothing has waited
C31_Witness ==
  /\ maxConcurrent >= 2
  /\ processing = maxConcurrent
  /\ \A s \in Subs : pc[s] = (IF s <= maxConcurrent THEN "running" ELSE "idle")
  /\ waited = {}
  /\ submitted.sub = maxConcurrent
  /\ submitted.processing = maxConcurrent - 1

\* fn() throws when it is called for s in this step
ThrowsNow(s) ==
  pc[s] \in {"idle", "released"} /\ pc'[s] = "done"

\* C32: when the work function throws on being called, the promise of
\* process() rejects with that error, processing is decremented exactly
\* once and the oldest waiter, if there is one, is released, as for a work
\* promise that rejects.
C32_SyncThrowCleansUp ==
  /\ [][\A s \in Subs :
          ThrowsNow(s) =>
            /\ delivered'.sub = s
            /\ delivered'.work = "thrown" /\ delivered'.result = "thrown"
            /\ settles'[s] = 1
            /\ incs'[s] = 1 /\ decs'[s] = 1
            /\ processing' = processing
            /\ IF queue # <<>>
                 THEN /\ queue' = Tail(queue)
                      /\ delivered'.released = <<Head(queue)>>
                      /\ pc'[Head(queue)] = "released"
                      /\ resumeJobs'[Len(resumeJobs')] = Head(queue)
                 ELSE /\ queue' = <<>>
                      /\ delivered'.released = <<>>]_vars
  /\ [](\A s \in Subs : pc[s] = "done" => incs[s] = 1 /\ decs[s] = 1)

\* a work function threw on being called while a submission was waiting,
\* and that waiter is now executing
C32_Witness ==
  /\ delivered.work = "thrown"
  /\ delivered.result = "thrown"
  /\ Len(delivered.released) = 1
  /\ pc[delivered.released[1]] = "running"
  /\ decs[delivered.sub] = 1

\* C35: a submission rejected with the capacity error leaves the queue as
\* it was: processing and the waiter list, contents and order, are the same
\* after the rejection as before it, and so is every other submission.
C35_RejectionChangesNothing ==
  [][\A s \in Subs :
       (pc[s] = "idle" /\ pc'[s] = "rejected") =>
         /\ processing' = processing
         /\ queue' = queue
         /\ resumeJobs' = resumeJobs
         /\ waited' = waited
         /\ \A t \in Subs \ {s} : pc'[t] = pc[t]
         /\ UNCHANGED <<invoked, incs, decs, workResult>>
         /\ delivered'.result = CapacityError]_vars

\* the latest submission was rejected and left the slots and the two
\* waiters it found as they were
C35_Witness ==
  /\ submitted.sub \in Subs
  /\ pc[submitted.sub] = "rejected"
  /\ delivered.sub = submitted.sub
  /\ processing = submitted.processing
  /\ Len(queue) = 2
  /\ submitted.queued = 2
  /\ \A i \in 1..Len(queue) : pc[queue[i]] = "waiting"

\* C36: processing equals the number of work units whose work function
\* has been called and whose settlement process() has not yet received
\* (its continuation after `await fn()` has not run); it never drifts from
\* that number and is never negative.
C36_CounterCountsExecutingUnits ==
  /\ processing = Cardinality({s \in Subs : pc[s] \in Executing})
  /\ processing >= 0
  /\ \A s \in Subs :
       /\ pc[s] \in Executing => (invoked[s] = 1 /\ incs[s] = 1 /\ decs[s] = 0)
       /\ pc[s] \in {"idle", "waiting", "released", "rejected"} =>
            (invoked[s] = 0 /\ incs[s] = 0 /\ decs[s] = 0)
       /\ pc[s] = "done" => (invoked[s] = 1 /\ incs[s] = 1 /\ decs[s] = 1)

\* three units are through their finally block, the latest after a
\* failure, and the counter is the number of the two units still executing
C36_Witness ==
  /\ processing = 2
  /\ Cardinality({s \in Subs : pc[s] = "running"}) = 2
  /\ Cardinality({s \in Subs : pc[s] = "done"}) = 3
  /\ delivered.work \in Failures

\* C37: whenever the waiter list is not empty, processing plus the number
\* of waiters released and not yet resumed is at least maxConcurrent: no
\* submission waits while a slot is idle and unclaimed.
C37_NoWaiterBesideIdleSlot ==
  queue # <<>> => processing + Len(resumeJobs) >= maxConcurrent

\* a slot is idle while a submission waits, and a released waiter that has
\* not resumed yet is there to claim it
C37_Witness ==
  /\ queue # <<>>
  /\ processing < maxConcurrent
  /\ resumeJobs # <<>>
  /\ processing + Len(resumeJobs) = maxConcurrent
  /\ delivered.released = <<resumeJobs[Len(resumeJobs)]>>

\* ------------------------------------------------------------ the server's
\* properties (HttpSpec)

CapacityMessage == "Server at capacity, please try again later"

\* C13: when the queue rejects a POST /analyze with capacity-exceeded, the
\* response is 503 "Server at capacity, please try again later", and no LLM
\* call and no persistence write is made for that request.
C13_CapacityRejectionIs503 ==
  /\ [](\A s \in Subs : pc[s] = "rejected" =>
          /\ llm[s] = NoCalls /\ LlmCalls(s) = 0
          /\ saves[s] = 0 /\ RowsOf(s) = <<>>
          /\ (response.route = "analyze" /\ response.sub = s) =>
               (response.status = 503 /\ response.error = CapacityMessage))
  /\ [][\A s \in Subs : (pc[s] # "rejected" /\ pc'[s] = "rejected") =>
          /\ response'.route = "analyze" /\ response'.sub = s
          /\ response'.status = 503 /\ response'.error = CapacityMessage
          /\ UNCHANGED <<llm, saves, db>>]_vars

C13_Witness ==
  \E s, t \in Subs :
    /\ pc[s] = "rejected" /\ response.sub = s /\ response.status = 503
    /\ response.error = CapacityMessage
    /\ pc[t] = "running" /\ LlmCalls(t) = 2

\* C14: the status of a failed admitted POST /analyze follows the failure
\* category: LLM timeout 504, LLM unavailable or authentication failure
\* 503, malformed LLM response or persistence failure 500.
C14_StatusByFailureCategory ==
  (response.route = "analyze" /\ response.sub \in Subs) =>
    /\ response.cause = "timeout" => response.status = 504
    /\ response.cause \in {"unavailable", "auth"} => response.status = 503
    /\ response.cause \in {"malformed", "persist"} => response.status = 500

\* C15: a POST /analyze that fails validation is answered without a call of
\* process(): processing and the waiter list do not change, no LLM call is
\* made, nothing is written.
C15_InvalidNeverReachesQueue ==
  /\ [](\A s \in Subs : text[s] # "none" =>
          validateAnalysisRequest(text[s]) = "ok")
  /\ [][(response = NoResponse /\ response'.route = "analyze"
           /\ response'.cause = "validation") =>
         /\ response'.status \in {400, 413}
         /\ UNCHANGED <<processing, queue, resumeJobs, pc, submitted, waited,
                        invoked, incs, text, llm, saves, db>>]_vars

C15_Witness ==
  /\ response.route = "analyze" /\ response.cause = "validation"
  /\ response.status = 400
  /\ processing = maxConcurrent /\ queue # <<>>
  /\ \E s \in Subs : pc[s] = "running" /\ LlmCalls(s) > 0

\* the call of analyze() of request s has settled
AnalyzeOver(s) == pc[s] = "settled"

BothSucceeded(s) == AnalyzeOver(s) /\ llm[s].cause \in {"none", "persist"}

SubOpFailed(s) ==
  AnalyzeOver(s) /\ llm[s].cause \in {"timeout", "auth", "unavailable",
                                       "malformed"}

\* C16: exactly one record is written for a request if both LLM
\* sub-operations succeed, none if the queue rejects it or a sub-operation
\* fails; no request causes more than one write.
C16_OneRecordIffBothSucceed ==
  \A s \in Subs :
    /\ Len(RowsOf(s)) <= 1 /\ saves[s] <= 1
    /\ BothSucceeded(s) => Len(RowsOf(s)) = 1
    /\ (pc[s] = "rejected" \/ SubOpFailed(s)) => RowsOf(s) = <<>>

\* C16, amended: repository.save is called exactly once for a request if
\* both LLM sub-operations succeed, and leaves exactly one record unless
\* the write itself fails (then none, and the work fails with the
\* persistence error); it is not called, and no record exists, if the queue
\* rejects the request or a sub-operation fails, nor before analyze has
\* settled; no request causes more than one write.
C16_OneWriteIffBothSucceed ==
  \A s \in Subs :
    /\ Len(RowsOf(s)) <= saves[s] /\ saves[s] <= 1
    /\ BothSucceeded(s) => saves[s] = 1
    /\ (BothSucceeded(s) /\ llm[s].cause = "none") =>
         (Len(RowsOf(s)) = 1 /\ workResult[s] = "value")
    /\ (BothSucceeded(s) /\ llm[s].cause = "persist") =>
         (RowsOf(s) = <<>> /\ workResult[s] = "persistError")
    /\ (pc[s] \in {"idle", "waiting", "released", "running", "rejected"}
          \/ SubOpFailed(s)) => (saves[s] = 0 /\ RowsOf(s) = <<>>)

C16_Witness ==
  \E s, t \in Subs :
    /\ BothSucceeded(s) /\ llm[s].cause = "none" /\ Len(RowsOf(s)) = 1
    /\ pc[t] = "done" /\ saves[t] = 1 /\ RowsOf(t) = <<>>

\* C17: a POST /analyze whose text is longer than 50,000 characters is
\* answered 413 at validation: it is never handed to the queue, so it never
\* holds a slot, never reaches the LLM or the storage length constraint.
C17_OversizedNeverAdmitted ==
  \A s \in Subs : text[s] # "none" => TextLength(text[s]) <= MaxTextLength

Contains(str, sub) ==
  \E i \in 0..(Len(str) - Len(sub)) : SubSeq(str, i + 1, i + Len(sub)) = sub

\* a topic of the row contains the term, letter case aside
HasTopic(row, term) ==
  \E k \in 1..Len(row.topics) :
    Contains(toLowerCase(row.topics[k]), toLowerCase(term))

\* the stored rows that a search for the term is to find
Wanted(term) == {i \in 1..Len(db) : HasTopic(db[i], term)}

Ids(rows, idx) == {rows[i].id : i \in idx}

\* a search has just been answered 200
Searched == response.route = "search" /\ response.status = 200

SearchedTerm == SearchQuery(response.query).topic

SearchedLimit == SearchQuery(response.query).limit

\* C19: searchByTopic returns exactly the stored records of which a topic
\* contains the search term as a case-insensitive substring (all of them
\* when no limit cuts the result short, and never a record without such a
\* topic), for terms that may hold JSON punctuation and LIKE wildcards.
C19_SearchFindsExactlyMatchingTopics ==
  Searched =>
    /\ Ids(response.body, 1..Len(response.body)) \subseteq
         Ids(db, Wanted(SearchedTerm))
    /\ ~SearchedLimit.defined =>
         Ids(response.body, 1..Len(response.body)) =
           Ids(db, Wanted(SearchedTerm))

\* C20: the result of GET /search is ordered by createdAt, newest first,
\* holds at most `limit` records when a limit is given, and is the empty
\* array when nothing matches.
C20_SearchNewestFirstWithinLimit ==
  Searched =>
    /\ \A i, j \in 1..Len(response.body) :
         i < j => response.body[i].createdAt >= response.body[j].createdAt
    /\ SearchedLimit.defined => Len(response.body) <= SearchedLimit.n
    /\ Wanted(SearchedTerm) = {} => response.body = <<>>


\* C21: GET /search without a topic parameter is answered 400 "Topic
\* parameter is required", and with an empty one (topic=) 400 "Topic
\* parameter cannot be empty": two cases, two messages.
C21_AbsentAndEmptyTopicDistinct ==
  response.route = "search" =>
    /\ ~response.query.topic.present =>
         /\ response.status = 400
         /\ response.error = "Topic parameter is required"
    /\ (response.query.topic.present /\ response.query.topic.chars = <<>>) =>
         /\ response.status = 400
         /\ response.error = "Topic parameter cannot be empty"


\* C22: when an admitted POST /analyze fails with an error that has no
\* status, the error field of the 500 response is that error's own
\* message: "Failed to store analysis" for a failed write, "Failed to
\* process LLM response" for a malformed LLM response.
C22_Error500CarriesOwnMessage ==
  (response.route = "analyze" /\ response.sub \in Subs
     /\ response.status = 500) =>
    /\ response.cause = "persist" =>
         response.error = ErrMessage("persistError")
    /\ response.cause = "malformed" =>
         response.error = ErrMessage("processLLM")


\* C23: the queue of the server is only ever constructed with an integer
\* maxConcurrent >= 1 and an integer maxQueueSize >= 0, whatever
\* MAX_CONCURRENT_REQUESTS and MAX_QUEUE_SIZE are set to: loadConfig()
\* yields bounds in those ranges or fails.
C23_QueueBoundsInRange ==
  maxConcurrent.defined =>
    /\ ~maxConcurrent.nan /\ maxConcurrent.n >= 1
    /\ ~maxQueueSize.nan /\ maxQueueSize.n >= 0


\* C24: every call of callClaude settles: it returns the upstream text or
\* throws the timeout error when its timer fires or throws the unavailable
\* error; no call stays pending, so no request holds its slot forever.
C24_EveryLlmCallSettles ==
  /\ \A s \in 1..TimedSubs, op \in {"summary", "metadata"} :
       (llm[s][op] = "pending") ~> (llm[s][op] # "pending")
  /\ \A s \in 1..TimedSubs : (pc[s] \in Executing) ~> (pc[s] = "done")

\* a call was ended by its timer and its request has failed with the
\* timeout error
C24_Witness ==
  \E s \in Subs :
    /\ pc[s] = "settled"
    /\ workResult[s] = "timeout"
    /\ llm[s].cause = "timeout"


\* C25: analyze() does not settle before both LLM sub-calls have settled:
\* while a sub-call of a request is pending, the request's work has not
\* settled and its slot has not been released.
C25_AnalyzeWaitsForBothSubCalls ==
  \A s \in Subs :
    pc[s] \in {"settled", "done"} =>
      llm[s].summary # "pending" /\ llm[s].metadata # "pending"


\* the LLM calls pending in the whole server
PendingCalls ==
  {c \in Subs \X {"summary", "metadata"} : llm[c[1]][c[2]] = "pending"}

\* C26: the two LLM sub-operations of one analyze call are started together
\* and may both be pending at once, and the number of LLM calls pending in
\* the whole server is at most 2 * maxConcurrent.
C26_PendingLlmCallsBounded ==
  Cardinality(PendingCalls) <= 2 * maxConcurrent


\* C27: for a text of fewer than 20 words generateSummary makes no LLM call
\* and the text itself is the summary (the request's only call is the
\* metadata call); for a text of 20 words or more it makes exactly one call.
C27_ShortTextSkipsSummaryCall ==
  \A s \in Subs :
    pc[s] \in Executing =>
      IF countWords(text[s]) < 20
        THEN llm[s].summary = "verbatim" /\ LlmCalls(s) = 1
        ELSE llm[s].summary \in {"pending", "ok", "over"} /\ LlmCalls(s) = 2

\* analyze() has completed for a short text without a summary call, and
\* a request with a text of exactly 20 words has its summary call pending
C27_Witness ==
  \E s, t \in Subs :
    /\ pc[s] = "settled" /\ countWords(text[s]) < 20
    /\ llm[s].summary = "verbatim" /\ saves[s] = 1
    /\ pc[t] = "running" /\ countWords(text[t]) = 20
    /\ llm[t].summary = "pending"


\* C33: a POST /analyze answered 200 went through validation, admission,
\* analyze, the write, the release of its slot and the response, in that
\* order: the write is made while the request holds its slot, and the 200
\* response comes after the write succeeded and carries the record written.
C33_WriteInsideSlotThenRespond ==
  /\ [](\A s \in Subs :
          (response.route = "analyze" /\ response.sub = s
             /\ response.status = 200) =>
            /\ pc[s] = "done" /\ invoked[s] = 1
            /\ incs[s] = 1 /\ decs[s] = 1
            /\ saves[s] = 1
            /\ Len(RowsOf(s)) = 1
            /\ response.body = RowsOf(s)
            /\ validateAnalysisRequest(RowsOf(s)[1].text) = "ok")
  /\ [][\A s \in Subs :
          /\ saves'[s] # saves[s] =>
               /\ pc[s] = "running" /\ pc'[s] = "settled"
               /\ validateAnalysisRequest(text[s]) = "ok"
               /\ incs[s] = 1 /\ decs'[s] = 0
               /\ processing' = processing
               /\ response' = NoResponse
          /\ RowsOf(s)' # RowsOf(s) =>
               (saves'[s] = saves[s] + 1 /\ workResult'[s] = "value")]_vars

\* a 200 response carries the one record of its request, whose slot is free
C33_Witness ==
  /\ response.route = "analyze"
  /\ response.status = 200
  /\ response.sub \in Subs
  /\ response.body = RowsOf(response.sub)
  /\ Len(response.body) = 1
  /\ pc[response.sub] = "done"


\* C34: two RequestQueue instances share no state: a step of one instance
\* (a submission, a resumption, a settlement) leaves the other instance's
\* processing and waiter list, and everything else of it, as they were, and
\* passing from one instance to the other changes neither.
C34_InstancesShareNoState ==
  [][\A i \in {1, 2} :
       (i # peer.this \/ peer'.this # peer.this) =>
          /\ FieldsOf(i)'.processing = FieldsOf(i).processing
          /\ FieldsOf(i)'.queue = FieldsOf(i).queue
          /\ FieldsOf(i)' = FieldsOf(i)]_vars

\* one queue has a unit executing and a waiter while the other, which has
\* run a unit to its end, is idle with an empty waiter list
C34_Witness ==
  \E i \in {1, 2} :
    /\ FieldsOf(i).processing = 1
    /\ Len(FieldsOf(i).queue) = 1
    /\ FieldsOf(3 - i).processing = 0
    /\ FieldsOf(3 - i).queue = <<>>
    /\ FieldsOf(3 - i).pc[1] = "done"
    /\ FieldsOf(3 - i).decs[1] = 1

====
